---- MODULE Spec2Model ----
(***************************************************************************)
(* bevy-rrise: the plugin's systems (src/src/plugin.rs), the emitter and   *)
(* listener components (src/src/emitter_listener.rs) and the middleware    *)
(* they call, seen through the results of the calls the code makes.        *)
(*                                                                         *)
(* One frame is the sequence of the plugin's systems in the order build()  *)
(* registers them; game code (spawn, despawn, remove, post, AppExit) acts  *)
(* at the points of the frame where its commands take effect.  The         *)
(* middleware delivers event callbacks from its own thread at any moment.  *)
(***************************************************************************)
EXTENDS Integers, Sequences, FiniteSets, TLC

\* ---------------------------------------------------------------- bounds
NumEntities == 1      \* entity indices (game object IDs) 1..NumEntities
MaxPosts == 2         \* PostEvent calls that reach the middleware
MaxExtraCb == 1       \* callbacks other than EndOfEvent per subscribed event
MaxCoord == 1         \* vector components of a transform: -MaxCoord..MaxCoord
NumObjects == 2       \* moving objects seen by update_rr_position
MaxMask == 3          \* AkCallbackType masks of PostEventAtLocation: 0..MaxMask

\* ------------------------------------------------------------- constants
AK_INVALID_PLAYING_ID == 0

Entities == 1..NumEntities
NoEntity == 0                     \* Option<Entity>::None
NoEmitter == [absent |-> TRUE]    \* the entity carries no RrEmitter
NoListener == [absent |-> TRUE]   \* the entity carries no RrListener
NoPost == [idle |-> TRUE]         \* no post_event call is in progress
NoRet == [none |-> TRUE]          \* no post_event call has just returned
NoCall == [none |-> TRUE]         \* no to_ak_transform call, no post call yet
NoObject == [absent |-> TRUE]     \* the object does not exist
NoPal == [absent |-> TRUE]        \* no PostEventAtLocation was constructed
Objects == 1..NumObjects
Flags == {0, 1}                   \* AkCallbackType masks: none, some callback

\* The subsystems in the order init_sound_engine initialises them.
InitOrder == <<"mem", "stream", "language", "sound", "music", "comms">>
Subsystems == {"mem", "stream", "sound", "music", "comms"}

VARIABLES
    pc,               \* the system about to run
    spawnDefault,     \* RriseBasicSettings::spawn_default_listener
    appExit,          \* an AppExit event is in Events<AppExit>
    alive,            \* live entity indices
    emitters,         \* entity -> RrEmitter or NoEmitter
    listeners,        \* entity -> RrListener or NoListener
    rrRegistered,     \* entities carrying the RrRegistered marker
    addedEmitter,     \* Added<RrEmitter> not yet seen by init_new_rr_objects
    addedListener,    \* Added<RrListener> not yet seen by init_new_rr_objects
    removedEmitters,  \* RemovedComponents<RrEmitter> of the world
    stopAllCalled,    \* the removals among them that stop_all has answered
    cmdInsert,        \* queued commands.entity(e).insert(RrRegistered)
    cmdDespawn,       \* queued commands.entity(e).despawn()
    subsys,           \* middleware subsystems that are initialised
    gameObjs,         \* game object IDs registered in the middleware
    bankLoaded,       \* Init.bnk is loaded
    events,           \* playing ID -> the event the middleware accepted
    posting,          \* the post_event call between its post and its push
    channel,          \* CallbackChannel: sent, not yet received
    akEvents,         \* AkCallbackEvent sent to the EventWriter in this PreUpdate
    lastRet,          \* the post_event call that has just returned: its emitter,
                      \* what it returned, whether it called the middleware
    regResult,        \* entity -> outcome of its init_new_rr_objects pass
    initRes,          \* what init_sound_engine returned
    loadRes,          \* what load_bank_by_name("Init.bnk") returned
    akTfm,            \* the last to_ak_transform call: receiver, argument, result
    objs,             \* object -> its RrEmitter or RrListener with a GlobalTransform
    setPositionCalls, \* the set_position calls of update_rr_position's last run
    pal,              \* the PostEventAtLocation under construction
    tmpObjs,          \* temporary game objects registered in the middleware
    palRet            \* what PostEventAtLocation::post did and returned

ecs == <<alive, emitters, listeners, rrRegistered, addedEmitter, addedListener,
         removedEmitters, stopAllCalled, cmdInsert, cmdDespawn>>
mw == <<subsys, gameObjs, bankLoaded, events>>
chan == <<channel, akEvents>>
startup == <<spawnDefault, initRes, loadRes>>
main == <<pc, appExit, ecs, mw, chan, startup, posting, lastRet, regResult>>
aux == <<akTfm, objs, setPositionCalls, pal, tmpObjs, palRet>>
vars == <<main, aux>>

\* ------------------------------------------------------------ middleware
\* sound_engine::is_initialized()
is_initialized == "sound" \in subsys

\* What a middleware call can return: a call on an engine that is not
\* initialised fails.
MwResults == IF is_initialized THEN {"Ok", "Err"} ELSE {"Err"}

PlayingIds == 1..Len(events)

\* An event whose EndOfEvent callback has run.
Ended == [st |-> "ended"]

IsPlaying(p) == events[p].st = "playing"

\* The events posted through the RrEmitter that entity e carries now and whose
\* EndOfEvent callback has not run.
InFlight(e) == {p \in PlayingIds : /\ IsPlaying(p)
                                   /\ events[p].obj = e
                                   /\ ~events[p].orphan}

\* The events still playing that were posted through an RrEmitter entity e
\* has lost.
Orphans(e) == {p \in PlayingIds : /\ IsPlaying(p)
                                  /\ events[p].obj = e
                                  /\ events[p].orphan}

\* ------------------------------------------------------------- RrEmitter
HasEmitter(e) == emitters[e] # NoEmitter
HasListener(e) == listeners[e] # NoListener

\* RrEmitter::default() with the fields the bundle's builders set.
NewEmitter(flags, auto_post, despawn_on_silent) ==
    [flags |-> flags, auto_post |-> auto_post,
     despawn_on_silent |-> despawn_on_silent,
     playing_ids |-> <<>>, entity |-> NoEntity]

\* RrListener::new
NewListener(is_default) == [is_default |-> is_default, entity |-> NoEntity]

\* RrEmitter::is_playing
is_playing(e) == emitters[e].playing_ids # <<>>

\* The playing IDs in the list of entity e's RrEmitter.
Ids(e) == {emitters[e].playing_ids[i] : i \in 1..Len(emitters[e].playing_ids)}

\* Vec::retain(|&p_id| p_id != playing_id)
Retain(ids, playing_id) == SelectSeq(ids, LAMBDA p : p # playing_id)

\* ------------------------------------------------------------------ Init
Init ==
    /\ pc = "init_sound_engine"
    /\ spawnDefault \in BOOLEAN
    /\ appExit = FALSE
    /\ alive = {}
    /\ emitters = [e \in Entities |-> NoEmitter]
    /\ listeners = [e \in Entities |-> NoListener]
    /\ rrRegistered = {}
    /\ addedEmitter = {}
    /\ addedListener = {}
    /\ removedEmitters = {}
    /\ stopAllCalled = {}
    /\ cmdInsert = {}
    /\ cmdDespawn = {}
    /\ subsys = {}
    /\ gameObjs = {}
    /\ bankLoaded = FALSE
    /\ events = <<>>
    /\ posting = NoPost
    /\ channel = <<>>
    /\ akEvents = <<>>
    /\ lastRet = NoRet
    /\ regResult = [e \in Entities |-> "none"]
    /\ initRes = "none"
    /\ loadRes = "none"
    /\ akTfm = NoCall
    /\ objs = [o \in Objects |-> NoObject]
    /\ setPositionCalls = <<>>
    /\ pal = NoPal
    /\ tmpObjs = {}
    /\ palRet = NoCall

\* --------------------------------------------------------------- startup
\* init_sound_engine: each initialisation is followed by `?`, so the first
\* failing call returns its error and leaves the later subsystems alone.  k is
\* the number of calls of InitOrder that succeed.
init_sound_engine ==
    /\ pc = "init_sound_engine"
    /\ \E k \in 0..Len(InitOrder) :
         /\ subsys' = {InitOrder[i] : i \in 1..k} \cap Subsystems
         /\ initRes' = IF k = Len(InitOrder) THEN "Ok" ELSE "Err"
    /\ pc' = "setup_audio"
    /\ UNCHANGED <<appExit, ecs, gameObjs, bankLoaded, events, chan,
                   spawnDefault, loadRes, posting, lastRet, regResult>>
    /\ UNCHANGED aux

\* The entity indices a spawn can get.
FreeEntities == Entities \ alive

\* setup_audio without `.after(RriseLabel::SoundEngineInitialized)`: it may
\* run before init_sound_engine.
setup_audio_unordered ==
    /\ pc \in {"init_sound_engine", "setup_audio"}
    /\ loadRes = "none"
    /\ \E r \in MwResults :
         /\ loadRes' = r
         /\ bankLoaded' = (r = "Ok")
    /\ pc' = IF pc = "setup_audio" THEN "init_new_rr_objects" ELSE pc
    /\ UNCHANGED <<appExit, ecs, subsys, gameObjs, events, chan,
                   spawnDefault, initRes, posting, lastRet, regResult>>
    /\ UNCHANGED aux

\* setup_audio: load Init.bnk, then spawn the default listener.
setup_audio ==
    /\ pc = "setup_audio"
    /\ \E r \in MwResults :
         /\ loadRes' = r
         /\ IF r = "Err"
              THEN UNCHANGED <<bankLoaded, alive, listeners, addedListener>>
              ELSE /\ bankLoaded' = TRUE
                   /\ IF spawnDefault
                        THEN \E e \in FreeEntities :
                               /\ alive' = alive \cup {e}
                               /\ listeners' = [listeners EXCEPT ![e] = NewListener(TRUE)]
                               /\ addedListener' = addedListener \cup {e}
                        ELSE UNCHANGED <<alive, listeners, addedListener>>
    /\ pc' = "init_new_rr_objects"
    /\ UNCHANGED <<appExit, emitters, rrRegistered, addedEmitter, removedEmitters,
                   stopAllCalled, cmdInsert, cmdDespawn, subsys, gameObjs, events, chan,
                   spawnDefault, initRes, posting, lastRet, regResult>>
    /\ UNCHANGED aux

\* ------------------------------------------------------------ post_event
\* The points of a frame where game code acts: the Update stage, and the end
\* of PostUpdate, where the commands of that stage's systems are applied.
UserPoints == {"update", "post_update_end"}

\* Forwards without the has_flags half of the match: every post with a
\* channel sends its callbacks.
ForwardsWhateverFlags(has_flags, cb_channel) == cb_channel

\* The match on (has_flags, cb_channel): only the (true, Some) arm gives the
\* callback a block that sends into the channel.
Forwards(has_flags, cb_channel) == has_flags /\ cb_channel

\* The flags the arm hands to post_event_internal!, before `| AK_EndOfEvent`.
ArmFlags(flags, cb_channel) == IF flags > 0 /\ ~cb_channel THEN 0 ELSE flags

\* Auto-post emitters that init_new_rr_objects has still to post for.
PendingAuto == Cardinality({e \in addedEmitter : emitters[e].auto_post})

\* Whether the middleware can still hand out a playing ID.
CanPost == Len(events) + PendingAuto < MaxPosts

\* PostEvent::post_with_callback on game object e returning r.  On Ok the
\* middleware plays the event under a fresh playing ID and post_event is left
\* between the post and the push of that ID.
PostWithCallback(e, flags, cb_channel, auto, r) ==
    IF r = "Ok"
      THEN /\ events' = Append(events,
                 [obj |-> e, flags |-> flags, chan |-> cb_channel,
                  st |-> "playing", orphan |-> FALSE, extra |-> 0])
           /\ posting' = [e |-> e, pid |-> Len(events) + 1, auto |-> auto]
           /\ lastRet' = NoRet
      ELSE /\ events' = events
           /\ posting' = NoPost
           /\ lastRet' = [e |-> e, id |-> AK_INVALID_PLAYING_ID, mw |-> TRUE]

\* RrEmitter::post_event up to `match post_result`.
post_event(e, flags, cb_channel) ==
    /\ pc \in UserPoints
    /\ posting = NoPost
    /\ HasEmitter(e)
    /\ IF emitters[e].entity = NoEntity
         THEN /\ lastRet' = [e |-> e, id |-> AK_INVALID_PLAYING_ID, mw |-> FALSE]
              /\ UNCHANGED <<events, posting>>
         ELSE /\ CanPost
              /\ \E r \in MwResults : PostWithCallback(e, flags, cb_channel, FALSE, r)
    /\ UNCHANGED <<pc, appExit, ecs, subsys, gameObjs, bankLoaded, chan, startup,
                   regResult>>
    /\ UNCHANGED aux

\* RrEmitter::post_associated_event
post_associated_event(e, cb_channel) ==
    /\ HasEmitter(e)
    /\ post_event(e, emitters[e].flags, cb_channel)

\* post_event_push pushing the playing ID twice.
post_event_push_twice ==
    /\ posting # NoPost
    /\ emitters' = [emitters EXCEPT ![posting.e].playing_ids =
                        Append(Append(emitters[posting.e].playing_ids, posting.pid),
                               posting.pid)]
    /\ lastRet' = [e |-> posting.e, id |-> posting.pid, mw |-> TRUE]
    /\ cmdInsert' = IF posting.auto THEN cmdInsert \cup {posting.e} ELSE cmdInsert
    /\ posting' = NoPost
    /\ UNCHANGED <<pc, appExit, alive, listeners, rrRegistered, addedEmitter,
                   addedListener, removedEmitters, stopAllCalled, cmdDespawn, mw, chan, startup,
                   regResult>>
    /\ UNCHANGED aux

\* The Ok arm of `match post_result`: push the playing ID and return it.  When
\* the call is init_new_rr_objects' auto post, the loop goes on to queue the
\* RrRegistered marker.
post_event_push ==
    /\ posting # NoPost
    /\ emitters' = [emitters EXCEPT ![posting.e].playing_ids =
                        Append(emitters[posting.e].playing_ids, posting.pid)]
    /\ lastRet' = [e |-> posting.e, id |-> posting.pid, mw |-> TRUE]
    /\ cmdInsert' = IF posting.auto THEN cmdInsert \cup {posting.e} ELSE cmdInsert
    /\ posting' = NoPost
    /\ UNCHANGED <<pc, appExit, alive, listeners, rrRegistered, addedEmitter,
                   addedListener, removedEmitters, stopAllCalled, cmdDespawn, mw, chan, startup,
                   regResult>>
    /\ UNCHANGED aux

\* ----------------------------------------------- the middleware's thread
\* What the callback closure of post_event_internal! gets for playing ID p;
\* flags and chan are the arguments of the post_event call it belongs to.
Callback(p, type) ==
    [pid |-> p, type |-> type, n |-> events[p].extra + 1,
     flags |-> events[p].flags, chan |-> events[p].chan]

\* The `then` block of the closure: try_send into the unbounded channel.
Send(p, type) ==
    IF Forwards(events[p].flags > 0, events[p].chan)
      THEN Append(channel, Callback(p, type))
      ELSE channel

\* A callback other than EndOfEvent, for an event posted with such flags.
mw_callback(p) ==
    /\ is_initialized
    /\ pc # "exited"
    /\ IsPlaying(p)
    /\ ArmFlags(events[p].flags, events[p].chan) > 0
    /\ events[p].extra < MaxExtraCb
    /\ events' = [events EXCEPT ![p].extra = @ + 1]
    /\ channel' = Send(p, "Other")
    /\ UNCHANGED <<pc, appExit, ecs, subsys, gameObjs, bankLoaded,
                   akEvents, startup, posting, lastRet, regResult>>
    /\ UNCHANGED aux

\* The EndOfEvent callback of playing ID p: the `then` block, then the retain
\* on the list of the emitter the event was posted with.
mw_end_of_event(p) ==
    /\ is_initialized
    /\ pc # "exited"
    /\ IsPlaying(p)
    /\ events' = [events EXCEPT ![p] = Ended]
    /\ channel' = Send(p, "EndOfEvent")
    /\ emitters' = IF events[p].orphan
                     THEN emitters
                     ELSE [emitters EXCEPT ![events[p].obj].playing_ids = Retain(@, p)]
    /\ UNCHANGED <<pc, appExit, alive, listeners, rrRegistered, addedEmitter,
                   addedListener, removedEmitters, stopAllCalled, cmdInsert, cmdDespawn, subsys,
                   gameObjs, bankLoaded, akEvents, startup, posting,
                   lastRet, regResult>>
    /\ UNCHANGED aux

\* ------------------------------------------------------------ game code
UserCanAct == pc \in UserPoints /\ posting = NoPost

\* What the world records when the entities of S lose their RrEmitter: the
\* removal (RemovedComponents), and the closures of the events posted with the
\* component keep the list of a component that is gone.
DropEmitters(S) ==
    LET gone == {e \in S : HasEmitter(e)} IN
    /\ emitters' = [e \in Entities |-> IF e \in gone THEN NoEmitter ELSE emitters[e]]
    /\ addedEmitter' = addedEmitter \ gone
    /\ removedEmitters' = removedEmitters \cup gone
    /\ stopAllCalled' = stopAllCalled \ gone
    /\ events' = [p \in PlayingIds |->
                    IF IsPlaying(p) /\ events[p].obj \in gone
                      THEN [events[p] EXCEPT !.orphan = TRUE] ELSE events[p]]

\* Despawning the entities of S.
DespawnAll(S) ==
    /\ DropEmitters(S)
    /\ alive' = alive \ S
    /\ listeners' = [e \in Entities |-> IF e \in S THEN NoListener ELSE listeners[e]]
    /\ addedListener' = addedListener \ S
    /\ rrRegistered' = rrRegistered \ S
    /\ cmdInsert' = cmdInsert \ S
    /\ regResult' = [e \in Entities |-> IF e \in S THEN "none" ELSE regResult[e]]

\* commands.spawn(RrEmitterBundle ...)
spawn_emitter(e, flags, auto_post, despawn_on_silent) ==
    /\ UserCanAct
    /\ e \in FreeEntities
    /\ auto_post => CanPost
    /\ alive' = alive \cup {e}
    /\ emitters' = [emitters EXCEPT ![e] = NewEmitter(flags, auto_post, despawn_on_silent)]
    /\ addedEmitter' = addedEmitter \cup {e}
    /\ lastRet' = NoRet
    /\ UNCHANGED <<pc, appExit, listeners, rrRegistered, addedListener, removedEmitters,
                   stopAllCalled, cmdInsert, cmdDespawn, mw, chan, startup, posting, regResult>>
    /\ UNCHANGED aux

\* commands.spawn(RrListenerBundle ...)
spawn_listener(e, is_default) ==
    /\ UserCanAct
    /\ e \in FreeEntities
    /\ alive' = alive \cup {e}
    /\ listeners' = [listeners EXCEPT ![e] = NewListener(is_default)]
    /\ addedListener' = addedListener \cup {e}
    /\ lastRet' = NoRet
    /\ UNCHANGED <<pc, appExit, emitters, rrRegistered, addedEmitter, removedEmitters,
                   stopAllCalled, cmdInsert, cmdDespawn, mw, chan, startup, posting, regResult>>
    /\ UNCHANGED aux

\* commands.entity(e).despawn() by game code
despawn(e) ==
    /\ UserCanAct
    /\ e \in alive
    /\ DespawnAll({e})
    /\ cmdDespawn' = cmdDespawn \ {e}
    /\ lastRet' = NoRet
    /\ UNCHANGED <<pc, appExit, subsys, gameObjs, bankLoaded, chan, startup, posting>>
    /\ UNCHANGED aux

\* commands.entity(e).remove::<RrEmitter>() by game code
remove_emitter(e) ==
    /\ UserCanAct
    /\ HasEmitter(e)
    /\ DropEmitters({e})
    /\ lastRet' = NoRet
    /\ UNCHANGED <<pc, appExit, alive, listeners, rrRegistered, addedListener,
                   cmdInsert, cmdDespawn, subsys, gameObjs, bankLoaded,
                   chan, startup, posting, regResult>>
    /\ UNCHANGED aux

\* EventWriter<AppExit>::send
send_app_exit ==
    /\ UserCanAct
    /\ ~appExit
    /\ appExit' = TRUE
    /\ lastRet' = NoRet
    /\ UNCHANGED <<pc, ecs, mw, chan, startup, posting, regResult>>
    /\ UNCHANGED aux

\* ------------------------------------------------- CoreStage::PreUpdate
\* AllOk without the `continue` after set_position: only the register call
\* decides.
AllOkButSetPosition(results) == results[1] = "Ok"

\* Whether an init_new_rr_objects iteration reaches its insert(RrRegistered):
\* every `if let Err(..) = .. { continue }` before it was passed.
AllOk(results) == \A i \in 1..Len(results) : results[i] = "Ok"

\* One iteration of init_new_rr_objects' loop over Added<RrListener>.
init_listener(e) ==
    /\ pc = "init_new_rr_objects"
    /\ posting = NoPost
    /\ e \in addedListener
    /\ \E reg \in MwResults, dl \in MwResults, sp \in MwResults :
         LET calls == IF listeners[e].is_default THEN <<reg, dl, sp>> ELSE <<reg, sp>> IN
         /\ gameObjs' = IF reg = "Ok" THEN gameObjs \cup {e} ELSE gameObjs
         /\ cmdInsert' = IF AllOk(calls) THEN cmdInsert \cup {e} ELSE cmdInsert
         /\ regResult' = [regResult EXCEPT ![e] =
                             IF \E i \in 1..Len(calls) : calls[i] = "Err"
                               THEN "failed" ELSE "ok"]
    /\ listeners' = [listeners EXCEPT ![e].entity = e]
    /\ addedListener' = addedListener \ {e}
    /\ lastRet' = NoRet
    /\ UNCHANGED <<pc, appExit, alive, emitters, rrRegistered, addedEmitter,
                   removedEmitters, stopAllCalled, cmdDespawn, subsys, bankLoaded, events,
                   chan, startup, posting>>
    /\ UNCHANGED aux

\* init_emitter without the `continue`s before the auto post: the event is
\* posted whatever register and set_position returned.
init_emitter_posts_always(e) ==
    /\ pc = "init_new_rr_objects"
    /\ posting = NoPost
    /\ addedListener = {}
    /\ e \in addedEmitter
    /\ \E reg \in MwResults, sp \in MwResults :
         LET ok == AllOk(<<reg, sp>>) IN
         /\ gameObjs' = IF reg = "Ok" THEN gameObjs \cup {e} ELSE gameObjs
         /\ regResult' = [regResult EXCEPT ![e] =
                             IF reg = "Err" \/ sp = "Err" THEN "failed" ELSE "ok"]
         /\ IF emitters[e].auto_post
              THEN \E r \in MwResults :
                     /\ PostWithCallback(e, emitters[e].flags, TRUE, TRUE, r)
                     /\ cmdInsert' = IF r = "Ok" \/ ~ok THEN cmdInsert ELSE cmdInsert \cup {e}
              ELSE /\ cmdInsert' = IF ok THEN cmdInsert \cup {e} ELSE cmdInsert
                   /\ lastRet' = NoRet
                   /\ UNCHANGED <<events, posting>>
    /\ emitters' = [emitters EXCEPT ![e].entity = e]
    /\ addedEmitter' = addedEmitter \ {e}
    /\ UNCHANGED <<pc, appExit, alive, listeners, rrRegistered, addedListener,
                   removedEmitters, stopAllCalled, cmdDespawn, subsys, bankLoaded, chan, startup>>
    /\ UNCHANGED aux

\* One iteration of the loop over Added<RrEmitter>, which starts when the
\* listeners' loop is over.  With auto_post the iteration posts the emitter's
\* event with the plugin's channel and queues the marker whatever the post
\* returns.
init_emitter(e) ==
    /\ pc = "init_new_rr_objects"
    /\ posting = NoPost
    /\ addedListener = {}
    /\ e \in addedEmitter
    /\ \E reg \in MwResults, sp \in MwResults :
         LET ok == AllOk(<<reg, sp>>) IN
         /\ gameObjs' = IF reg = "Ok" THEN gameObjs \cup {e} ELSE gameObjs
         /\ regResult' = [regResult EXCEPT ![e] =
                             IF reg = "Err" \/ sp = "Err" THEN "failed" ELSE "ok"]
         /\ IF ok /\ emitters[e].auto_post
              THEN \E r \in MwResults :
                     /\ PostWithCallback(e, emitters[e].flags, TRUE, TRUE, r)
                     /\ cmdInsert' = IF r = "Ok" THEN cmdInsert ELSE cmdInsert \cup {e}
              ELSE /\ cmdInsert' = IF ok THEN cmdInsert \cup {e} ELSE cmdInsert
                   /\ lastRet' = NoRet
                   /\ UNCHANGED <<events, posting>>
    /\ emitters' = [emitters EXCEPT ![e].entity = e]
    /\ addedEmitter' = addedEmitter \ {e}
    /\ UNCHANGED <<pc, appExit, alive, listeners, rrRegistered, addedListener,
                   removedEmitters, stopAllCalled, cmdDespawn, subsys, bankLoaded, chan, startup>>
    /\ UNCHANGED aux

\* init_new_rr_objects returns Ok(()) when both loops are over.
init_new_rr_objects_done ==
    /\ pc = "init_new_rr_objects"
    /\ posting = NoPost
    /\ addedListener = {}
    /\ addedEmitter = {}
    /\ pc' = "process_callbacks"
    /\ lastRet' = NoRet
    /\ UNCHANGED <<appExit, ecs, mw, chan, startup, posting, regResult>>
    /\ UNCHANGED aux

\* process_callbacks with `if let` in place of `while let`: one try_recv.
process_callbacks_once ==
    /\ pc = "process_callbacks"
    /\ posting = NoPost
    /\ akEvents' = IF channel = <<>> THEN akEvents ELSE Append(akEvents, Head(channel))
    /\ channel' = IF channel = <<>> THEN channel ELSE Tail(channel)
    /\ pc' = "pre_update_end"
    /\ lastRet' = NoRet
    /\ UNCHANGED <<appExit, ecs, mw, startup, posting, regResult>>
    /\ UNCHANGED aux

\* process_callbacks: try_recv until the channel is empty, each received
\* callback sent to the EventWriter.
process_callbacks ==
    /\ pc = "process_callbacks"
    /\ posting = NoPost
    /\ akEvents' = akEvents \o channel
    /\ channel' = <<>>
    /\ pc' = "pre_update_end"
    /\ lastRet' = NoRet
    /\ UNCHANGED <<appExit, ecs, mw, startup, posting, regResult>>
    /\ UNCHANGED aux

\* The end of PreUpdate applies the queued insert(RrRegistered) commands; the
\* Update stage starts, and akEvents is left to its readers.
apply_pre_update ==
    /\ pc = "pre_update_end"
    /\ posting = NoPost
    /\ rrRegistered' = rrRegistered \cup (cmdInsert \cap alive)
    /\ cmdInsert' = {}
    /\ akEvents' = <<>>
    /\ pc' = "update"
    /\ lastRet' = NoRet
    /\ UNCHANGED <<appExit, alive, emitters, listeners, addedEmitter, addedListener,
                   removedEmitters, stopAllCalled, cmdDespawn, mw, channel, startup,
                   posting, regResult>>
    /\ UNCHANGED aux

\* ------------------------------------------------ CoreStage::PostUpdate
\* stop_destroyed_emitters, the first of the plugin's systems once Update is
\* over: stop_all for every entity RemovedComponents names.
stop_destroyed_emitters ==
    /\ pc = "update"
    /\ posting = NoPost
    /\ stopAllCalled' = removedEmitters
    /\ pc' = "despawn_silent_emitters"
    /\ lastRet' = NoRet
    /\ UNCHANGED <<appExit, alive, emitters, listeners, rrRegistered, addedEmitter,
                   addedListener, removedEmitters, cmdInsert, cmdDespawn, mw, chan,
                   startup, posting, regResult>>
    /\ UNCHANGED aux

\* SilentEmitters without the despawn_on_silent test.
SilentEmittersWhateverFlag ==
    {e \in rrRegistered : /\ HasEmitter(e)
                          /\ emitters[e].playing_ids = <<>>}

\* The entities despawn_silent_emitters queues a despawn for.
SilentEmitters ==
    {e \in rrRegistered : /\ HasEmitter(e)
                          /\ emitters[e].despawn_on_silent
                          /\ emitters[e].playing_ids = <<>>}

\* despawn_silent_emitters
despawn_silent_emitters ==
    /\ pc = "despawn_silent_emitters"
    /\ posting = NoPost
    /\ cmdDespawn' = cmdDespawn \cup SilentEmitters
    /\ pc' = "post_update_end"
    /\ lastRet' = NoRet
    /\ UNCHANGED <<appExit, alive, emitters, listeners, rrRegistered, addedEmitter,
                   addedListener, removedEmitters, stopAllCalled, cmdInsert, mw, chan, startup,
                   posting, regResult>>
    /\ UNCHANGED aux

\* The end of PostUpdate applies the queued despawn commands.
apply_post_update ==
    /\ pc = "post_update_end"
    /\ posting = NoPost
    /\ DespawnAll(cmdDespawn \cap alive)
    /\ cmdDespawn' = {}
    /\ pc' = "audio_rendering"
    /\ lastRet' = NoRet
    /\ UNCHANGED <<appExit, subsys, gameObjs, bankLoaded, chan, startup, posting>>
    /\ UNCHANGED aux

\* ------------------------------------------------------ CoreStage::Last
\* term_sound_engine without unregister_all_game_obj.
term_sound_engine_keeps_objects(r) ==
    /\ stopAllCalled' = removedEmitters
    /\ gameObjs' = gameObjs
    /\ subsys' = IF r = "Err" THEN subsys ELSE {}

\* term_sound_engine, r being what unregister_all_game_obj returns:
\* stop_all(None), then `unregister_all_game_obj()?`, then the term of every
\* subsystem.  A failed unregister_all_game_obj may have unregistered some of
\* the game objects.
term_sound_engine(r) ==
    /\ stopAllCalled' = removedEmitters
    /\ IF r = "Err"
         THEN /\ gameObjs' \in SUBSET gameObjs
              /\ subsys' = subsys
         ELSE /\ gameObjs' = {}
              /\ subsys' = {}

\* audio_rendering
audio_rendering ==
    /\ pc = "audio_rendering"
    /\ posting = NoPost
    /\ IF ~is_initialized
         THEN UNCHANGED <<subsys, gameObjs, stopAllCalled>>
         ELSE IF appExit
                THEN \E r \in {"Ok", "Err"} : term_sound_engine(r)
                ELSE UNCHANGED <<subsys, gameObjs, stopAllCalled>>
    /\ pc' = "clear_trackers"
    /\ lastRet' = NoRet
    /\ UNCHANGED <<appExit, alive, emitters, listeners, rrRegistered, addedEmitter,
                   addedListener, removedEmitters, cmdInsert, cmdDespawn, bankLoaded,
                   events, chan, startup, posting, regResult>>
    /\ UNCHANGED aux

\* World::clear_trackers, which the engine runs at the end of CoreStage::Last:
\* the removals recorded so far are forgotten.  The application's runner leaves
\* after the frame in which an AppExit event was sent.
clear_trackers ==
    /\ pc = "clear_trackers"
    /\ posting = NoPost
    /\ removedEmitters' = {}
    /\ stopAllCalled' = {}
    /\ pc' = IF appExit THEN "exited" ELSE "init_new_rr_objects"
    /\ lastRet' = NoRet
    /\ UNCHANGED <<appExit, alive, emitters, listeners, rrRegistered, addedEmitter,
                   addedListener, cmdInsert, cmdDespawn, mw, chan, startup, posting,
                   regResult>>
    /\ UNCHANGED aux

\* ------------------------------------------------------- ToAkTransform
Coords == -MaxCoord..MaxCoord
Vec3 == Coords \X Coords \X Coords

\* The directions an axis-aligned rotation gives to forward() and up().
UnitAxes == {<<1, 0, 0>>, <<-1, 0, 0>>, <<0, 1, 0>>, <<0, -1, 0>>,
             <<0, 0, 1>>, <<0, 0, -1>>}

Dot(a, b) == a[1] * b[1] + a[2] * b[2] + a[3] * b[3]

\* A Transform or GlobalTransform, by what translation, forward() and up()
\* return for it.
Transforms ==
    {t \in [translation : Vec3, forward : UnitAxes, up : UnitAxes] :
        Dot(t.forward, t.up) = 0}

\* NegZ that leaves the array as it is.
NegZKeepsZ(v) == v

\* `pos[2] = -pos[2]` on the array of a vector.
NegZ(v) == <<v[1], v[2], -v[3]>>

\* impl ToAkTransform for Transform
Transform_to_ak_transform(t) ==
    [position |-> NegZ(t.translation),
     orientationFront |-> NegZ(t.forward),
     orientationTop |-> NegZ(t.up)]

\* impl ToAkTransform for GlobalTransform
GlobalTransform_to_ak_transform(t) ==
    [position |-> NegZ(t.translation),
     orientationFront |-> NegZ(t.forward),
     orientationTop |-> NegZ(t.up)]

\* A call of to_ak_transform on t, a Transform or a GlobalTransform.
to_ak_transform(receiver, t) ==
    /\ akTfm' = [receiver |-> receiver, arg |-> t,
                 ak |-> IF receiver = "Transform"
                          THEN Transform_to_ak_transform(t)
                          ELSE GlobalTransform_to_ak_transform(t)]
    /\ UNCHANGED <<main, objs, setPositionCalls, pal, tmpObjs, palRet>>

NextTransform ==
    \/ \E t \in Transforms : to_ak_transform("Transform", t)
    \/ \E t \in Transforms : to_ak_transform("GlobalTransform", t)

SpecTransform == Init /\ [][NextTransform]_vars

\* ------------------------------------------------- update_rr_position
\* The transforms the moving objects take: on the Z axis, looking down -Z.
PositionTransforms ==
    {t \in Transforms : /\ t.translation[1] = 0 /\ t.translation[2] = 0
                        /\ t.forward = <<0, 0, -1>> /\ t.up = <<0, 1, 0>>}

Kinds == {"emitter", "listener"}

\* The objects both queries of update_rr_position select.
ChangedRegistered(kind) ==
    {o \in Objects : /\ objs[o] # NoObject /\ objs[o].kind = kind
                     /\ objs[o].registered /\ objs[o].changed}

\* The orders in which a query may iterate over the objects of S.
Orders(S) ==
    {q \in [1..Cardinality(S) -> S] : \A o \in S : \E i \in DOMAIN q : q[i] = o}

\* Game code spawns an RrEmitterBundle or an RrListenerBundle: the added
\* GlobalTransform counts as changed, RrRegistered is not there yet.
spawn_object(o, kind, t) ==
    /\ objs[o] = NoObject
    /\ objs' = [objs EXCEPT ![o] =
                   [kind |-> kind, registered |-> FALSE, tfm |-> t, changed |-> TRUE]]
    /\ UNCHANGED <<main, akTfm, setPositionCalls, pal, tmpObjs, palRet>>

\* commands.entity(e).insert(RrRegistered) of init_new_rr_objects, applied.
insert_registered(o) ==
    /\ objs[o] # NoObject
    /\ ~objs[o].registered
    /\ objs' = [objs EXCEPT ![o].registered = TRUE]
    /\ UNCHANGED <<main, akTfm, setPositionCalls, pal, tmpObjs, palRet>>

\* Game code, or transform propagation, writes the GlobalTransform.
move(o, t) ==
    /\ objs[o] # NoObject
    /\ objs' = [objs EXCEPT ![o].tfm = t, ![o].changed = TRUE]
    /\ UNCHANGED <<main, akTfm, setPositionCalls, pal, tmpObjs, palRet>>

\* One run of the system: the emitters loop, then the listeners loop, each
\* set_position under `?`, so that the run ends with the first call that
\* returns Err. oks is the number of calls that return Ok before that one.
\* Having run, the system sees none of the earlier changes as changes again.
update_rr_position ==
    \E qe \in Orders(ChangedRegistered("emitter")),
       ql \in Orders(ChangedRegistered("listener")) :
        LET q == qe \o ql
        IN \E oks \in 0..Len(q) :
            LET made == IF oks < Len(q) THEN oks + 1 ELSE Len(q)
            IN /\ setPositionCalls' =
                      [i \in 1..made |->
                          [id |-> q[i],
                           position |-> GlobalTransform_to_ak_transform(objs[q[i]].tfm),
                           result |-> IF i <= oks THEN "Ok" ELSE "Err"]]
               /\ objs' = [o \in Objects |->
                              IF objs[o] = NoObject THEN NoObject
                              ELSE [objs[o] EXCEPT !.changed = FALSE]]
               /\ UNCHANGED <<main, akTfm, pal, tmpObjs, palRet>>

NextPosition ==
    \/ \E o \in Objects, kind \in Kinds, t \in PositionTransforms :
           spawn_object(o, kind, t)
    \/ \E o \in Objects : insert_registered(o)
    \/ \E o \in Objects, t \in PositionTransforms : move(o, t)
    \/ update_rr_position

SpecPosition == Init /\ [][NextPosition]_vars

\* ------------------------------------------------- PostEventAtLocation
Masks == 0..MaxMask

RECURSIVE BitOr(_, _)
\* a | b on AkCallbackType bitmasks.
BitOr(a, b) ==
    IF a = 0 THEN b
    ELSE IF b = 0 THEN a
    ELSE (IF a % 2 = 1 \/ b % 2 = 1 THEN 1 ELSE 0) + 2 * BitOr(a \div 2, b \div 2)

Results == {"Ok", "Err"}

\* PostEventAtLocation::new: the inner event starts without flags, at is the
\* converted transform.
PostEventAtLocation_new(id, t) ==
    /\ pal' = [tmp_id |-> id, has_flags |-> FALSE, mask |-> 0,
               at |-> Transform_to_ak_transform(t)]
    /\ UNCHANGED <<main, akTfm, objs, setPositionCalls, tmpObjs, palRet>>

\* PostEventAtLocation::add_flags: has_flags is taken from the argument, the
\* inner event adds the argument to its mask.
PostEventAtLocation_add_flags(f) ==
    /\ pal # NoPal
    /\ pal' = [pal EXCEPT !.has_flags = (f > 0), !.mask = BitOr(pal.mask, f)]
    /\ UNCHANGED <<main, akTfm, objs, setPositionCalls, tmpObjs, palRet>>

\* PostEventAtLocation::flags: has_flags is taken from the argument, the
\* inner event's mask becomes the argument.
PostEventAtLocation_flags(f) ==
    /\ pal # NoPal
    /\ pal' = [pal EXCEPT !.has_flags = (f > 0), !.mask = f]
    /\ UNCHANGED <<main, akTfm, objs, setPositionCalls, tmpObjs, palRet>>

\* What a post call did: the result of each middleware call it made ("none"
\* for a call it did not make), whether it was given a channel, whether it
\* gave the middleware a callback that sends to the channel, and what it
\* returned.
PostReturn(cb_channel, reg, sp, pr, un, cb) ==
    [tmp_id |-> pal.tmp_id, mask |-> pal.mask, position |-> pal.at,
     register |-> reg, set_position |-> sp, post |-> pr, unregister |-> un,
     cb_channel |-> cb_channel, callback |-> cb,
     result |-> IF reg = "Err" \/ sp = "Err" THEN "Err" ELSE pr]

\* PostEventAtLocation::post(cb_channel), cb_channel being Some or None.
PostEventAtLocation_post(cb_channel) ==
    /\ pal # NoPal
    /\ \/ \* register_game_obj(self.tmp_id)? fails
          /\ palRet' = PostReturn(cb_channel, "Err", "none", "none", "none", FALSE)
          /\ UNCHANGED tmpObjs
       \/ \* set_position(self.tmp_id, self.at)? fails
          /\ palRet' = PostReturn(cb_channel, "Ok", "Err", "none", "none", FALSE)
          /\ tmpObjs' = tmpObjs \cup {pal.tmp_id}
       \/ \* the event is posted, then unregister_game_obj is tried
          \E pr \in Results, un \in Results :
              /\ palRet' = PostReturn(cb_channel, "Ok", "Ok", pr, un,
                                       pal.has_flags /\ cb_channel)
              /\ tmpObjs' = IF un = "Ok" THEN tmpObjs \ {pal.tmp_id}
                                         ELSE tmpObjs \cup {pal.tmp_id}
    /\ UNCHANGED <<main, akTfm, objs, setPositionCalls, pal>>

NextPostAt ==
    \/ \E id \in Objects, t \in PositionTransforms : PostEventAtLocation_new(id, t)
    \/ \E f \in Masks : PostEventAtLocation_add_flags(f)
    \/ \E f \in Masks : PostEventAtLocation_flags(f)
    \/ \E cb_channel \in BOOLEAN : PostEventAtLocation_post(cb_channel)

SpecPostAt == Init /\ [][NextPostAt]_vars

Next ==
    \/ init_sound_engine
    \/ setup_audio
    \/ \E e \in Entities : init_listener(e)
    \/ \E e \in Entities : init_emitter(e)
    \/ init_new_rr_objects_done
    \/ process_callbacks
    \/ apply_pre_update
    \/ stop_destroyed_emitters
    \/ despawn_silent_emitters
    \/ apply_post_update
    \/ audio_rendering
    \/ clear_trackers
    \/ \E e \in Entities, f \in Flags, a \in BOOLEAN, d \in BOOLEAN : spawn_emitter(e, f, a, d)
    \/ \E e \in Entities, d \in BOOLEAN : spawn_listener(e, d)
    \/ \E e \in Entities : despawn(e)
    \/ \E e \in Entities : remove_emitter(e)
    \/ send_app_exit
    \/ \E e \in Entities, f \in Flags, c \in BOOLEAN : post_event(e, f, c)
    \/ \E e \in Entities, c \in BOOLEAN : post_associated_event(e, c)
    \/ post_event_push
    \/ \E p \in PlayingIds : mw_callback(p)
    \/ \E p \in PlayingIds : mw_end_of_event(p)

Spec == Init /\ [][Next]_vars

C2_RemovedEmittersStopped ==
    [][(pc = "clear_trackers" /\ pc' # pc) =>
           \A e \in removedEmitters :
               Orphans(e) # {} => e \in stopAllCalled]_vars

\* =================================================================== C3
\* C3 as stated, one frame at a time: when despawn_silent_emitters runs, every
\* registered emitter with despawn_on_silent whose posted events have all had
\* their EndOfEvent callback gets its despawn queued, whatever the
\* interleaving of the callbacks with the return of post_event was.
C3_SilentEmitterDespawned ==
    [][(pc = "despawn_silent_emitters" /\ pc' # pc) =>
           \A e \in rrRegistered :
               (/\ HasEmitter(e)
                /\ emitters[e].despawn_on_silent
                /\ InFlight(e) = {}) => e \in cmdDespawn']_vars

C5_ListIsInFlight ==
    posting = NoPost =>
        \A e \in Entities :
            HasEmitter(e) => /\ Ids(e) = InFlight(e)
                             /\ is_playing(e) <=> (InFlight(e) # {})

\* =================================================================== C6
\* C6: a run of process_callbacks emits every callback waiting in the channel
\* as one AkCallbackEvent, in the order of the sends, and leaves the channel
\* empty; until then a sent callback stays in the channel, behind the ones
\* sent before it; no AkCallbackEvent is emitted twice, and none is emitted
\* but by process_callbacks.
C6_ChannelForwardedInOrder ==
    [][/\ (pc = "process_callbacks" /\ pc' # pc) =>
              /\ akEvents' = akEvents \o channel
              /\ channel' = <<>>
       /\ ~(pc = "process_callbacks" /\ pc' # pc) =>
              /\ Len(channel') >= Len(channel)
              /\ SubSeq(channel', 1, Len(channel)) = channel
              /\ akEvents' \in {akEvents, <<>>}
       /\ \A i, j \in 1..Len(akEvents') :
              i # j => akEvents'[i] # akEvents'[j]]_vars

\* One run of process_callbacks has emitted two callbacks, the EndOfEvent
\* callback last.
C6_Witness ==
    /\ pc = "pre_update_end"
    /\ Len(akEvents) = 2
    /\ akEvents[1].type = "Other"
    /\ akEvents[2].type = "EndOfEvent"

C8_PostEventReturn ==
    [][/\ (lastRet' # NoRet /\ lastRet' # lastRet /\ posting = NoPost) =>
              /\ lastRet'.id = AK_INVALID_PLAYING_ID
              /\ events' = events
              /\ \A e \in Entities :
                     HasEmitter(e) =>
                         emitters'[e].playing_ids = emitters[e].playing_ids
              /\ lastRet'.mw <=> (emitters'[lastRet'.e].entity # NoEntity)
       /\ (posting = NoPost /\ posting' # NoPost) =>
              /\ emitters'[posting'.e].entity = posting'.e
              /\ events' = Append(events, events'[posting'.pid])
              /\ events'[posting'.pid].obj = posting'.e
       /\ (posting # NoPost /\ posting' = NoPost) =>
              /\ lastRet' = [e |-> posting.e, id |-> posting.pid, mw |-> TRUE]
              /\ posting.pid # AK_INVALID_PLAYING_ID
              /\ emitters'[posting.e].playing_ids =
                     Append(emitters[posting.e].playing_ids, posting.pid)]_vars

\* The middleware has rejected a post on a registered emitter of a running
\* engine: post_event has returned AK_INVALID_PLAYING_ID.
C8_Witness ==
    /\ lastRet # NoRet
    /\ lastRet.mw
    /\ lastRet.id = AK_INVALID_PLAYING_ID
    /\ is_initialized
    /\ pc \in UserPoints

\* =================================================================== C9
\* C9 as stated: when audio_rendering runs with an AppExit event sent and the
\* sound engine initialised, every subsystem is terminated when it returns
\* and is_initialized() is false, whatever unregister_all_game_obj returned.
C9_TerminatedOnExit ==
    [][(pc = "audio_rendering" /\ pc' # pc /\ appExit /\ is_initialized) =>
           subsys' = {}]_vars

C11_DefaultListenerIffSetting ==
    [][(pc = "setup_audio" /\ pc' # pc) =>
           /\ (\E e \in alive' \ alive :
                   HasListener(e)' /\ listeners'[e].is_default) <=> spawnDefault
           /\ Cardinality(alive' \ alive) <= 1]_vars

\* ================================================================== C13
\* C13: the iteration of init_new_rr_objects over a new emitter posts an
\* event exactly when the emitter has auto_post and its register and
\* set_position calls returned Ok; the post is made once, on the registered
\* game object, with the emitter's flags and the plugin's channel; and no
\* other step of the plugin posts an event.
C13_AutoPostOnceWhenRegistered ==
    [][/\ pc = "init_new_rr_objects" =>
              \A e \in addedEmitter \ addedEmitter' :
                  LET posted == posting' # NoPost \/ lastRet' # NoRet IN
                  /\ posted <=> (emitters[e].auto_post /\ regResult'[e] = "ok")
                  /\ posted => e \in gameObjs' /\ emitters'[e].entity = e
                  /\ lastRet' # NoRet => lastRet'.mw /\ lastRet'.e = e
                  /\ posting' = NoPost => events' = events
                  /\ posting' # NoPost =>
                         /\ posting'.e = e
                         /\ events' = Append(events,
                                [obj |-> e, flags |-> emitters[e].flags,
                                 chan |-> TRUE, st |-> "playing",
                                 orphan |-> FALSE, extra |-> 0])
       /\ Len(events') > Len(events) =>
              \/ pc \in UserPoints
              \/ /\ pc = "init_new_rr_objects"
                 /\ \E e \in addedEmitter \ addedEmitter' : emitters[e].auto_post]_vars

\* The auto post of an emitter with flags has been accepted by the middleware.
C13_Witness ==
    /\ posting # NoPost
    /\ posting.auto
    /\ pc = "init_new_rr_objects"
    /\ events[posting.pid].flags > 0
    /\ posting.e \in gameObjs

\* ================================================================== C17
\* C17: the set of registered game objects does not shrink in any step but
\* the audio_rendering step of the frame in which AppExit was sent (despawns
\* and removals leave it as it is), and it is empty after a termination that
\* terminated the subsystems.
C17_UnregisteredOnlyAtTermination ==
    [][/\ ~(pc = "audio_rendering" /\ pc' # pc /\ appExit /\ is_initialized) =>
              gameObjs \subseteq gameObjs'
       /\ (pc = "audio_rendering" /\ pc' # pc /\ is_initialized /\ ~is_initialized') =>
              gameObjs' = {}]_vars

\* The application has left after a successful termination, and an entity
\* registered before it still carries its marker.
C17_Witness ==
    /\ pc = "exited"
    /\ subsys = {}
    /\ gameObjs = {}
    /\ \E e \in rrRegistered : regResult[e] = "ok"

\* ================================================================== C16
\* C16: the result of to_ak_transform has the position, the front vector and
\* the top vector of its argument with the Z component negated and the X and
\* Y components unchanged; the Transform and the GlobalTransform
\* implementations give the same result for the same argument; and negating
\* the Z components of the result again gives back the argument's vectors.
C16_NegatesZOnly ==
    akTfm # NoCall =>
        LET t == akTfm.arg
            a == akTfm.ak
        IN /\ a.position = <<t.translation[1], t.translation[2], -t.translation[3]>>
           /\ a.orientationFront = <<t.forward[1], t.forward[2], -t.forward[3]>>
           /\ a.orientationTop = <<t.up[1], t.up[2], -t.up[3]>>
           /\ Transform_to_ak_transform(t) = GlobalTransform_to_ak_transform(t)
           /\ a = Transform_to_ak_transform(t)
           /\ <<a.position[1], a.position[2], -a.position[3]>> = t.translation
           /\ <<a.orientationFront[1], a.orientationFront[2],
                -a.orientationFront[3]>> = t.forward
           /\ <<a.orientationTop[1], a.orientationTop[2],
                -a.orientationTop[3]>> = t.up

\* A GlobalTransform in front of the origin, looking down -Z, was converted:
\* its position and its front vector changed sign along Z.
C16_Witness ==
    /\ akTfm # NoCall
    /\ akTfm.receiver = "GlobalTransform"
    /\ akTfm.arg.translation = <<1, 0, 1>>
    /\ akTfm.arg.forward = <<0, 0, -1>>
    /\ akTfm.ak.position = <<1, 0, -1>>
    /\ akTfm.ak.orientationFront = <<0, 0, 1>>

\* ================================================================== C12
\* C12: a run of update_rr_position calls set_position exactly once for every
\* RrRegistered emitter and listener whose GlobalTransform changed since the
\* previous run, with that object's current transform converted by
\* to_ak_transform, and calls it for no other object.
C12_OneCallPerChangedObject ==
    [][LET ran == /\ \A o \in Objects :
                        \/ objs[o] = NoObject /\ objs'[o] = NoObject
                        \/ /\ objs[o] # NoObject
                           /\ objs'[o] = [objs[o] EXCEPT !.changed = FALSE]
                  /\ (objs' # objs \/ setPositionCalls' # setPositionCalls)
           targets == {o \in Objects : /\ objs[o] # NoObject
                                       /\ objs[o].registered /\ objs[o].changed}
           calls == setPositionCalls'
       IN ran =>
           /\ \A o \in targets :
                  /\ Cardinality({i \in DOMAIN calls : calls[i].id = o}) = 1
                  /\ \A i \in DOMAIN calls :
                         calls[i].id = o =>
                             calls[i].position =
                                 [position |-> <<objs[o].tfm.translation[1],
                                                 objs[o].tfm.translation[2],
                                                 -objs[o].tfm.translation[3]>>,
                                  orientationFront |-> <<0, 0, 1>>,
                                  orientationTop |-> <<0, 1, 0>>]
           /\ \A i \in DOMAIN calls : calls[i].id \in targets]_vars

\* ================================================================== C14
\* C14: whenever PostEventAtLocation::post has returned, every successful
\* register_game_obj of the temporary object was followed by an
\* unregister_game_obj attempt, also when set_position or the post failed,
\* and a successful unregister leaves the object unregistered.
C14_TmpObjectUnregistered ==
    palRet # NoCall =>
        /\ palRet.register = "Ok" => palRet.unregister \in Results
        /\ palRet.unregister = "Ok" => palRet.tmp_id \notin tmpObjs

\* ================================================================== C15
\* C15: after any sequence of flags() and add_flags() calls, has_flags is
\* TRUE exactly when the mask accumulated on the inner event is non-zero, and
\* a post(Some(channel)) that reaches the middleware gives it a forwarding
\* callback exactly when that mask is non-zero.
C15_HasFlagsIsMaskNonZero ==
    /\ pal # NoPal => (pal.has_flags <=> pal.mask # 0)
    /\ palRet # NoCall /\ palRet.post \in Results /\ palRet.cb_channel =>
           (palRet.callback <=> palRet.mask # 0)
====
